---- MODULE Spec2Model ----
(***************************************************************************)
(* The question cache of src/api/api.py: QuestionCache (the catalog        *)
(* snapshot, its two indices, the refresh gate and its asyncio lock), the  *)
(* bounded-retry wrapper fetch_with_retry, and the request handlers that   *)
(* use them, as coroutines of one asyncio event loop.                      *)
(*                                                                         *)
(* A step of the model is what one coroutine runs between two suspension   *)
(* points (a contended lock, the await of client.post, asyncio.sleep): the *)
(* event loop runs nothing else in between.                                *)
(***************************************************************************)
EXTENDS Integers, Sequences, FiniteSets, TLC

\* ------------------------------------------------------------------ bounds
\* Coroutines that may be in flight at once.
NumTasks == 2
\* Of these, the coroutines that serve requests going through fetch_with_retry.
NumRetryTasks == 1
\* Clock advances in one run.
MaxTicks == 2

Tasks == 1..NumTasks

RetryTasks == { t \in Tasks : t <= NumRetryTasks }

\* ------------------------------------------------------- program constants
\* QuestionCache.update_interval: the freshness window in seconds.
update_interval == 3600
\* fetch_with_retry's default retries.
retries == 3
\* asyncio.sleep(1) after an attempt that raised.
retry_delay == 1

\* time.time() when the process starts: any wall-clock reading is further
\* from 0 (the initial last_updated) than the freshness window.
StartTime == update_interval + 1

\* The clock advances by a whole freshness window.
AgingSteps == {update_interval}

\* The clock advances by one second or by a whole freshness window.
TickSteps == {1, update_interval}

\* ------------------------------------------------------------ dictionaries
\* A Python dict: a function on the set of its keys.
EmptyDict == [k \in {} |-> ""]

Put(d, k, v) == [x \in (DOMAIN d) \cup {k} |-> IF x = k THEN v ELSE d[x]]

\* --------------------------------------------------------- upstream inputs
\* A key the upstream left out of a question object (q["..."] raises KeyError).
Missing == "<missing>"

Q(id, fid, slug) == [questionId |-> id, questionFrontendId |-> fid, titleSlug |-> slug]

R1 == Q("1", "1", "two-sum")
R2 == Q("2", "2", "add-two")
\* The upstream renumbered: id "1" now names another problem.
R1b == Q("1", "2", "add-two")
\* A question whose slug is another question's display id.
R3 == Q("3", "3", "1")

\* The question lists a bulk-listing response can carry.  Within one list the
\* upstream keeps questionId, questionFrontendId and titleSlug unique; a
\* question object may lack a key.
Listings ==
    { <<>>,
      <<R1>>,
      <<R1, R2>>,
      <<R1b>>,
      <<R1, R3>>,
      <<R1, Q("2", "2", Missing)>>,
      <<R1, Q("2", Missing, "add-two")>>,
      <<Q(Missing, "2", "add-two"), R1>> }

\* What the await of client.post (line 54) can produce:
\*   exc       the transport raised
\*   non200    a response whose status_code is not 200
\*   badjson   status 200, response.json() raises
\*   errdoc    status 200, a JSON document without data.problemsetQuestionList
\*             .questions (an application-level error payload)
\*   nulllist  status 200, data.problemsetQuestionList.questions is null
\*   list      status 200, questions is a list
Msg(kind, body) == [kind |-> kind, body |-> body]

NoMsg == Msg("none", <<>>)

ListingResponses ==
    { Msg(k, <<>>) : k \in {"exc", "non200", "badjson", "errdoc", "nulllist"} }
        \cup { Msg("list", l) : l \in Listings }

\* What the await of client.post in fetch_with_retry (line 82) can produce:
\* as above, and
\*   doc       status 200, a JSON document with the data asked for
\* (errdoc is a JSON document all the same: response.json() returns it).
RetryResponses == { Msg(k, <<>>) : k \in {"exc", "non200", "badjson", "errdoc", "doc"} }

\* What the detail query of get_problem (lines 122-149) can be answered with:
\* as above, and
\*   nullq     status 200, data.question is null (no such question)
DetailResponses == { Msg(k, <<>>) : k \in {"exc", "errdoc", "nullq", "doc"} }

\* The bulk-listing answers tried while detail requests are served.
DetailListingResponses ==
    { Msg("exc", <<>>) }
        \cup { Msg("list", l) : l \in { <<R1>>, <<R1b>>, <<R1, R3>>,
                                        <<R1, Q("2", "2", Missing)>> } }

\* The bulk-listing answers tried where only the gate and the lock matter.
GateListingResponses ==
    { Msg("exc", <<>>) } \cup { Msg("list", l) : l \in { <<>>, <<R1>> } }

\* The id_or_slug path parameters tried.
Idents == {"1", "2", "two-sum", "add-two", "nope"}

\* The upstream renumbers its questions between two bulk listings: the
\* listings, the path parameters and the detail answers tried then.
DriftListingResponses == { Msg("list", l) : l \in { <<R1>>, <<R1b>> } }

DriftIdents == {"two-sum", "add-two"}

DriftResponses == { Msg("doc", <<>>) }

\* What get_problem stores and returns for a slug: the upstream's question
\* object with the url of line 154.
Detail(slug) == [url |-> slug]

NoDetail == Detail("")

\* The result of the lookups of lines 109-114 when neither finds the string.
NotFound == "<404>"

VARIABLES
    questions,            \* QuestionCache.questions: questionId -> question
    slug_to_id,           \* QuestionCache.slug_to_id
    frontend_id_to_slug,  \* QuestionCache.frontend_id_to_slug
    question_details,     \* QuestionCache.question_details
    last_updated,         \* QuestionCache.last_updated
    interval,             \* QuestionCache.update_interval
    lock,                 \* QuestionCache.lock: 0 (free) or the holder
    waiters,              \* coroutines queued on the lock, first come first
    now,                  \* time.time()
    ticks,                \* clock advances so far
    serving,              \* the lifespan's initialize() has returned
    pc,                   \* where each coroutine is suspended
    op,                   \* the handler each coroutine runs
    net,                  \* the upstream's answer a coroutine is about to resume with
    attempt,              \* fetch_with_retry: the attempt a coroutine is in (1..retries)
    result,               \* what the handler hands back: "ok", "404", "500"
    frame,                \* get_problem's locals: id_or_slug, slug, question_id, and
                          \* the question data it returns
    hist                  \* per call: what happened between its start and its return

vars == <<questions, slug_to_id, frontend_id_to_slug, question_details, last_updated,
          interval, lock, waiters, now, ticks, serving, pc, op, net, attempt, result,
          frame, hist>>

cacheVars == <<questions, slug_to_id, frontend_id_to_slug, question_details, last_updated,
               interval>>

\* The snapshot: the record set and both indices.
Snapshot(q, s, f) == [questions |-> q, slug_to_id |-> s, frontend_id_to_slug |-> f]

Current == Snapshot(questions, slug_to_id, frontend_id_to_slug)

EmptySnapshot == Snapshot(EmptyDict, EmptyDict, EmptyDict)

\* ------------------------------------------------------- QuestionCache code
\* The gate without its age test.
NeedsRefreshIfEmpty(qs, last, t) == DOMAIN qs = {}

\* The gate with >= for >.
NeedsRefreshAtAge(qs, last, t) == DOMAIN qs = {} \/ (t - last) >= update_interval

\* Line 28: the refresh gate.
NeedsRefresh(qs, last, t) == DOMAIN qs = {} \/ (t - last) > interval

\* The rebuild loop with its three stores in the opposite order (66, 65, 64).
RECURSIVE RebuildIndexFirst(_, _)
RebuildIndexFirst(c, qs) ==
    IF qs = <<>> THEN c
    ELSE LET q == Head(qs) IN
        IF q.questionFrontendId = Missing \/ q.titleSlug = Missing THEN c
        ELSE LET c1 == [c EXCEPT !.frontend_id_to_slug =
                                     Put(@, q.questionFrontendId, q.titleSlug)] IN
            IF q.questionId = Missing THEN c1
            ELSE RebuildIndexFirst(
                     [c1 EXCEPT !.slug_to_id = Put(@, q.titleSlug, q.questionId),
                                !.questions = Put(@, q.questionId, q)],
                     Tail(qs))

\* Lines 63-66: the rebuild loop.  A KeyError leaves what was stored so far.
RECURSIVE Rebuild(_, _)
Rebuild(c, qs) ==
    IF qs = <<>> THEN c
    ELSE LET q == Head(qs) IN
        IF q.questionId = Missing THEN c
        ELSE LET c1 == [c EXCEPT !.questions = Put(@, q.questionId, q)] IN
            IF q.titleSlug = Missing THEN c1
            ELSE LET c2 == [c1 EXCEPT !.slug_to_id = Put(@, q.titleSlug, q.questionId)] IN
                IF q.questionFrontendId = Missing THEN c2
                ELSE Rebuild([c2 EXCEPT !.frontend_id_to_slug =
                                  Put(@, q.questionFrontendId, q.titleSlug)],
                             Tail(qs))

\* Lines 53-68: _fetch_all_questions once client.post has answered with r.
\* Every exception is caught and printed.
FetchAllQuestions(c, r) ==
    CASE r.kind \in {"exc", "non200", "badjson", "errdoc"} -> c
      [] r.kind = "nulllist" -> EmptySnapshot
      [] r.kind = "list" -> Rebuild(EmptySnapshot, r.body)

\* initialize() without its line 30.
StampKept(last, t) == last

\* Line 30: the timestamp initialize() stores once _fetch_all_questions returned.
Stamp(last, t) == t

\* acquire() that never waits.
CanAcquireBarging == TRUE

\* Line 27: asyncio.Lock.acquire returns at once only when the lock is free and
\* nobody is queued.
CanAcquire == lock = 0 /\ waiters = <<>>

\* Lines 93-103: get_all_problems reads these keys of every stored question.
ListResult(c) ==
    IF \E id \in DOMAIN c.questions :
           \/ c.questions[id].questionFrontendId = Missing
           \/ c.questions[id].titleSlug = Missing
    THEN "500" ELSE "ok"

\* -------------------------------------------------------- fetch_with_retry
\* Lines 83-84: the attempt returns response.json().
Decoded(r) == r.kind \in {"doc", "errdoc", "nullq"}

\* Line 85: the attempt raised (in client.post or in response.json()).
Raised(r) == r.kind \in {"exc", "badjson"}

\* The loop bound off by one.
LoopDoneLate(i) == i > retries

\* Line 80: range(retries) is used up after attempt i.
LoopDone(i) == i >= retries

\* Lines 459-466: get_solution_articles with what fetch_with_retry returned;
\* its own HTTPException(404) is caught by its `except Exception`.
ArticlesResult(data) == IF data.kind = "doc" THEN "ok" ELSE "500"

\* ------------------------------------------------------------ call history
\* empty, aged: the gate's two conditions when the call began; t0: the clock
\* then; seen: bulk-listing attempts that completed since (2 stands for two or
\* more); seenEmpty: one of them left the snapshot empty; slow: more than a
\* freshness window passed before initialize() returned; outs: what each
\* attempt of fetch_with_retry resumed with; slept: the seconds it spent in
\* asyncio.sleep; got: what it returned (NoMsg is None).
NoHist == [empty |-> FALSE, aged |-> FALSE, t0 |-> 0, seen |-> 0,
           seenEmpty |-> FALSE, slow |-> FALSE,
           outs |-> <<>>, slept |-> 0, got |-> NoMsg]

BeginHist == [NoHist EXCEPT !.empty = DOMAIN questions = {},
                            !.aged = (now - last_updated) > interval,
                            !.t0 = now]

InInitialize(t) == pc[t] \in {"wait", "fetch"}

\* h as it is when initialize() returns.
Returned(h) == [h EXCEPT !.slow = (now - h.t0) > interval, !.t0 = 0]

\* ---------------------------------------------------------------- get_problem
\* A slug with no entry in slug_to_id at line 117 (KeyError).
NoKey == "<KeyError>"

\* Lines 109-114 with an unknown string taken for a slug.
ResolveAsSlug(c, x) ==
    IF x \in DOMAIN c.frontend_id_to_slug THEN c.frontend_id_to_slug[x] ELSE x

\* Lines 109-114: the slug id_or_slug stands for, the display id first.
Resolve(c, x) ==
    IF x \in DOMAIN c.frontend_id_to_slug THEN c.frontend_id_to_slug[x]
    ELSE IF x \in DOMAIN c.slug_to_id THEN x
    ELSE NotFound

\* Line 117: question_id = cache.slug_to_id[slug].
IdOf(c, slug) == IF slug \in DOMAIN c.slug_to_id THEN c.slug_to_id[slug] ELSE NoKey

\* A detail cache that is never consulted.
CacheHitNever(d, k) == FALSE

\* Line 118: question_id in cache.question_details.
CacheHit(d, k) == k \in DOMAIN d

\* Whatever fetch_with_retry returned is stored.
StorableAlways(data) == TRUE

\* Line 150 negated: data is a document that holds a question.
Storable(data) == data.kind = "doc"

\* id_or_slug, slug, question_id of get_problem, and the question data it
\* returns.
NoFrame == [arg |-> "", slug |-> "", qid |-> "", data |-> NoDetail]

\* The lock stays with t when the bulk-listing request raised.
LockAfterFetchLeak(t, r) == IF r.kind = "exc" THEN t ELSE 0

\* Line 27: `async with` releases the lock however its body ended.
LockAfterFetch(t, r) == 0

TypeOK ==
    /\ lock \in 0..NumTasks
    /\ pc \in [Tasks -> {"idle", "wait", "fetch", "post", "sleep", "ret"}]
    /\ op \in [Tasks -> {"none", "lifespan", "list", "articles", "problem"}]
    /\ result \in [Tasks -> {"none", "ok", "404", "500"}]
    /\ attempt \in [Tasks -> 0..retries]
    /\ \A t \in Tasks : Len(hist[t].outs) <= attempt[t] \/ pc[t] = "ret"
    /\ now >= StartTime
    /\ last_updated <= now
    /\ interval \in {0, update_interval}

\* The state after QuestionCache() (lines 17-24) and before the lifespan, but
\* for update_interval.
Constructed ==
    /\ questions = EmptyDict
    /\ slug_to_id = EmptyDict
    /\ frontend_id_to_slug = EmptyDict
    /\ question_details = EmptyDict
    /\ last_updated = 0
    /\ lock = 0
    /\ waiters = <<>>
    /\ now = StartTime
    /\ ticks = 0
    /\ serving = FALSE
    /\ pc = [t \in Tasks |-> "idle"]
    /\ op = [t \in Tasks |-> "none"]
    /\ net = [t \in Tasks |-> NoMsg]
    /\ attempt = [t \in Tasks |-> 0]
    /\ result = [t \in Tasks |-> "none"]
    /\ frame = [t \in Tasks |-> NoFrame]
    /\ hist = [t \in Tasks |-> NoHist]

Init ==
    /\ Constructed
    /\ interval = update_interval

\* The same with cache.update_interval set to 0.
InitZero ==
    /\ Constructed
    /\ interval = 0

\* ------------------------------------------------------------------ actions
\* Lines 109-119 and 149 of get_problem, run by t on snapshot c for
\* id_or_slug x: NotFound, a cached answer, or the first attempt of
\* fetch_with_retry goes out.
Problem(t, x, c, hs) ==
    LET slug == Resolve(c, x)
        qid == IdOf(c, slug)
        done(res, f) ==
            /\ pc' = [pc EXCEPT ![t] = "ret"]
            /\ result' = [result EXCEPT ![t] = res]
            /\ frame' = [frame EXCEPT ![t] = f]
            /\ UNCHANGED attempt
    IN
    /\ hist' = [hs EXCEPT ![t] = Returned(@)]
    /\ IF slug = NotFound
       THEN done("404", [NoFrame EXCEPT !.arg = x])
       ELSE IF qid = NoKey
       THEN done("500", [NoFrame EXCEPT !.arg = x, !.slug = slug])
       ELSE IF CacheHit(question_details, qid)
       THEN done("ok", [arg |-> x, slug |-> slug, qid |-> qid,
                        data |-> question_details[qid]])
       ELSE /\ pc' = [pc EXCEPT ![t] = "post"]
            /\ attempt' = [attempt EXCEPT ![t] = 1]
            /\ frame' = [frame EXCEPT ![t] = [arg |-> x, slug |-> slug, qid |-> qid,
                                              data |-> NoDetail]]
            /\ UNCHANGED result

\* The body of handler o after `await cache.initialize()` returned, run by t
\* in the same step on snapshot c; x is the handler's argument and hs the
\* history of all calls by then.
AfterInitialize(t, o, x, c, hs) ==
    IF o = "problem"
    THEN Problem(t, x, c, hs)
    ELSE /\ pc' = [pc EXCEPT ![t] = "ret"]
         /\ result' = [result EXCEPT ![t] = IF o = "list" THEN ListResult(c) ELSE "ok"]
         /\ hist' = [hs EXCEPT ![t] = Returned(@)]
         /\ frame' = [frame EXCEPT ![t] = [NoFrame EXCEPT !.arg = x]]
         /\ UNCHANGED attempt

\* Lines 27-29 with the lock in hand: the gate, then either the bulk-listing
\* request (line 54) or the release and the rest of the handler.
Gate(t, o, x, hs) ==
    IF NeedsRefresh(questions, last_updated, now)
    THEN /\ lock' = t
         /\ pc' = [pc EXCEPT ![t] = "fetch"]
         /\ hist' = hs
         /\ frame' = [frame EXCEPT ![t] = [NoFrame EXCEPT !.arg = x]]
         /\ UNCHANGED <<result, attempt>>
    ELSE /\ lock' = 0
         /\ AfterInitialize(t, o, x, Current, hs)

\* A coroutine enters initialize() (line 26): it takes the lock or queues.
Enter(t, o, x) ==
    /\ pc[t] = "idle"
    /\ op' = [op EXCEPT ![t] = o]
    /\ IF CanAcquire
       THEN /\ Gate(t, o, x, [hist EXCEPT ![t] = BeginHist])
            /\ UNCHANGED waiters
       ELSE /\ waiters' = Append(waiters, t)
            /\ pc' = [pc EXCEPT ![t] = "wait"]
            /\ hist' = [hist EXCEPT ![t] = BeginHist]
            /\ frame' = [frame EXCEPT ![t] = [NoFrame EXCEPT !.arg = x]]
            /\ UNCHANGED <<lock, result, attempt>>
    /\ UNCHANGED <<cacheVars, now, ticks, serving, net>>

\* Lines 72-75: the lifespan calls initialize() before any request is served.
Lifespan(t) ==
    /\ ~serving
    /\ \A u \in Tasks : pc[u] = "idle"
    /\ t = 1
    /\ Enter(t, "lifespan", "")

\* GET /problems (lines 90-92).
GetAllProblems(t) ==
    /\ serving
    /\ Enter(t, "list", "")

\* GET /problem/{id_or_slug} (lines 105-107).
GetProblem(t, x) ==
    /\ serving
    /\ Enter(t, "problem", x)

\* The first queued coroutine resumes in acquire() once the lock is free.
Wake(t) ==
    /\ pc[t] = "wait"
    /\ lock = 0
    /\ waiters # <<>>
    /\ Head(waiters) = t
    /\ waiters' = Tail(waiters)
    /\ Gate(t, op[t], frame[t].arg, hist)
    /\ UNCHANGED <<cacheVars, now, ticks, serving, op, net>>

\* The upstream answers the bulk-listing request of t.
ListingAnswer(t, r) ==
    /\ pc[t] = "fetch"
    /\ net[t] = NoMsg
    /\ net' = [net EXCEPT ![t] = r]
    /\ UNCHANGED <<cacheVars, lock, waiters, now, ticks, serving, pc, op, attempt,
                   result, frame, hist>>

\* The history of every call under way once a bulk-listing attempt completed
\* and left snapshot c.
AttemptSeen(t, c) ==
    [u \in Tasks |->
        IF u = t \/ InInitialize(u)
        THEN [hist[u] EXCEPT !.seen = IF @ < 2 THEN @ + 1 ELSE 2,
                             !.seenEmpty = @ \/ (DOMAIN c.questions = {})]
        ELSE hist[u]]

\* t resumes from line 54: the rest of _fetch_all_questions, line 30, the
\* release of the lock and the rest of the handler.
FetchReturn(t) ==
    /\ pc[t] = "fetch"
    /\ net[t] # NoMsg
    /\ LET c == FetchAllQuestions(Current, net[t]) IN
        /\ questions' = c.questions
        /\ slug_to_id' = c.slug_to_id
        /\ frontend_id_to_slug' = c.frontend_id_to_slug
        /\ last_updated' = Stamp(last_updated, now)
        /\ lock' = LockAfterFetch(t, net[t])
        /\ net' = [net EXCEPT ![t] = NoMsg]
        /\ AfterInitialize(t, op[t], frame[t].arg, c, AttemptSeen(t, c))
    /\ UNCHANGED <<question_details, interval, waiters, now, ticks, serving, op>>

\* The handler's result goes back to its caller.
Return(t) ==
    /\ pc[t] = "ret"
    /\ pc' = [pc EXCEPT ![t] = "idle"]
    /\ op' = [op EXCEPT ![t] = "none"]
    /\ result' = [result EXCEPT ![t] = "none"]
    /\ frame' = [frame EXCEPT ![t] = NoFrame]
    /\ hist' = [hist EXCEPT ![t] = NoHist]
    /\ serving' = (serving \/ op[t] = "lifespan")
    /\ UNCHANGED <<cacheVars, lock, waiters, now, ticks, net, attempt>>

\* time.time() moves on.
Tick(d) ==
    /\ ticks < MaxTicks
    /\ ticks' = ticks + 1
    /\ now' = now + d
    /\ UNCHANGED <<cacheVars, lock, waiters, serving, pc, op, net, attempt, result,
                   frame, hist>>

\* fetch_with_retry returns data to handler op[t], which runs to its end:
\* lines 459-466 of get_solution_articles, lines 150-157 of get_problem.
RetryDone(t, data, h) ==
    /\ pc' = [pc EXCEPT ![t] = "ret"]
    /\ net' = [net EXCEPT ![t] = NoMsg]
    /\ attempt' = [attempt EXCEPT ![t] = 0]
    /\ hist' = [hist EXCEPT ![t] = [h EXCEPT !.got = data]]
    /\ IF op[t] = "problem"
       THEN IF Storable(data)
            THEN /\ question_details' =
                        Put(question_details, frame[t].qid, Detail(frame[t].slug))
                 /\ frame' = [frame EXCEPT ![t].data = Detail(frame[t].slug)]
                 /\ result' = [result EXCEPT ![t] = "ok"]
            ELSE /\ result' = [result EXCEPT ![t] = "404"]
                 /\ UNCHANGED <<question_details, frame>>
       ELSE /\ result' = [result EXCEPT ![t] = ArticlesResult(data)]
            /\ UNCHANGED <<question_details, frame>>

\* Line 80: the loop goes on to its next attempt (line 82), or ends (line 88).
NextAttempt(t, h) ==
    IF LoopDone(attempt[t])
    THEN RetryDone(t, NoMsg, h)
    ELSE /\ pc' = [pc EXCEPT ![t] = "post"]
         /\ net' = [net EXCEPT ![t] = NoMsg]
         /\ attempt' = [attempt EXCEPT ![t] = @ + 1]
         /\ hist' = [hist EXCEPT ![t] = h]
         /\ UNCHANGED <<result, question_details, frame>>

\* GET /problem/{slug}/solutions (lines 343, 458-459): no cache is involved;
\* the handler calls fetch_with_retry, whose first attempt goes out.
GetSolutionArticles(t) ==
    /\ serving
    /\ pc[t] = "idle"
    /\ op' = [op EXCEPT ![t] = "articles"]
    /\ pc' = [pc EXCEPT ![t] = "post"]
    /\ attempt' = [attempt EXCEPT ![t] = 1]
    /\ hist' = [hist EXCEPT ![t] = NoHist]
    /\ UNCHANGED <<cacheVars, lock, waiters, now, ticks, serving, net, result, frame>>

\* The upstream answers the request of an attempt of t.
PostAnswer(t, r) ==
    /\ pc[t] = "post"
    /\ net[t] = NoMsg
    /\ net' = [net EXCEPT ![t] = r]
    /\ UNCHANGED <<cacheVars, lock, waiters, now, ticks, serving, pc, op, attempt,
                   result, frame, hist>>

\* t resumes from line 82 with the answer (lines 83-87).
PostReturn(t) ==
    /\ pc[t] = "post"
    /\ net[t] # NoMsg
    /\ LET r == net[t]
           h == [hist[t] EXCEPT !.outs = Append(@, r)]
       IN
        IF Decoded(r) THEN RetryDone(t, r, h)
        ELSE IF Raised(r)
        THEN /\ pc' = [pc EXCEPT ![t] = "sleep"]
             /\ net' = [net EXCEPT ![t] = NoMsg]
             /\ hist' = [hist EXCEPT ![t] = [h EXCEPT !.slept = @ + retry_delay]]
             /\ UNCHANGED <<attempt, result, question_details, frame>>
        ELSE NextAttempt(t, h)
    /\ UNCHANGED <<questions, slug_to_id, frontend_id_to_slug, last_updated, interval,
                   lock, waiters, now, ticks, serving, op>>

\* asyncio.sleep(1) of line 87 is over (the loop's own timer, not time.time()).
SleepReturn(t) ==
    /\ pc[t] = "sleep"
    /\ NextAttempt(t, hist[t])
    /\ UNCHANGED <<questions, slug_to_id, frontend_id_to_slug, last_updated, interval,
                   lock, waiters, now, ticks, serving, op>>

\* ----------------------------------------------------------- specifications
\* The catalog: the lifespan and any number of GET /problems requests.
Next ==
    \/ \E t \in Tasks : Lifespan(t)
    \/ \E t \in Tasks : GetAllProblems(t)
    \/ \E t \in Tasks : Wake(t)
    \/ \E t \in Tasks, r \in ListingResponses : ListingAnswer(t, r)
    \/ \E t \in Tasks : FetchReturn(t)
    \/ \E t \in Tasks : Return(t)
    \/ \E d \in TickSteps : Tick(d)

Spec == Init /\ [][Next]_vars

\* The retry wrapper: the lifespan, then GET /problem/{slug}/solutions requests.
NextRetry ==
    \/ \E t \in Tasks : Lifespan(t)
    \/ \E t \in Tasks, r \in ListingResponses : ListingAnswer(t, r)
    \/ \E t \in Tasks : FetchReturn(t)
    \/ \E t \in Tasks : Return(t)
    \/ \E t \in RetryTasks : GetSolutionArticles(t)
    \/ \E t \in RetryTasks, r \in RetryResponses : PostAnswer(t, r)
    \/ \E t \in RetryTasks : PostReturn(t)
    \/ \E t \in RetryTasks : SleepReturn(t)

SpecRetry == Init /\ [][NextRetry]_vars

\* The detail cache: the lifespan, then GET /problem/{id_or_slug} requests
\* served by the coroutines of RetryTasks and GET /problems requests served by
\* the others.
NextDetail ==
    \/ \E t \in Tasks : Lifespan(t)
    \/ \E t \in RetryTasks, x \in Idents : GetProblem(t, x)
    \/ \E t \in Tasks \ RetryTasks : GetAllProblems(t)
    \/ \E t \in Tasks : Wake(t)
    \/ \E t \in Tasks, r \in DetailListingResponses : ListingAnswer(t, r)
    \/ \E t \in Tasks : FetchReturn(t)
    \/ \E t \in RetryTasks, r \in DetailResponses : PostAnswer(t, r)
    \/ \E t \in RetryTasks : PostReturn(t)
    \/ \E t \in RetryTasks : SleepReturn(t)
    \/ \E t \in Tasks : Return(t)

SpecDetail == Init /\ [][NextDetail]_vars

\* The detail cache while time passes and the upstream renumbers.
NextDrift ==
    \/ \E t \in Tasks : Lifespan(t)
    \/ \E t \in Tasks, x \in DriftIdents : GetProblem(t, x)
    \/ \E t \in Tasks : Wake(t)
    \/ \E t \in Tasks, r \in DriftListingResponses : ListingAnswer(t, r)
    \/ \E t \in Tasks : FetchReturn(t)
    \/ \E t \in Tasks, r \in DriftResponses : PostAnswer(t, r)
    \/ \E t \in Tasks : PostReturn(t)
    \/ \E t \in Tasks : Return(t)
    \/ \E d \in TickSteps : Tick(d)

SpecDrift == Init /\ [][NextDrift]_vars

\* The gate and the lock: the catalog with the bulk-listing answers that
\* matter to them, and cache.update_interval set to 0.
NextZero ==
    \/ \E t \in Tasks : Lifespan(t)
    \/ \E t \in Tasks : GetAllProblems(t)
    \/ \E t \in Tasks : Wake(t)
    \/ \E t \in Tasks, r \in GateListingResponses : ListingAnswer(t, r)
    \/ \E t \in Tasks : FetchReturn(t)
    \/ \E t \in Tasks : Return(t)
    \/ \E d \in TickSteps : Tick(d)

SpecZero == InitZero /\ [][NextZero]_vars

\* The same with update_interval as constructed and the clock moving by whole
\* freshness windows.
NextLock ==
    \/ \E t \in Tasks : Lifespan(t)
    \/ \E t \in Tasks : GetAllProblems(t)
    \/ \E t \in Tasks : Wake(t)
    \/ \E t \in Tasks, r \in GateListingResponses : ListingAnswer(t, r)
    \/ \E t \in Tasks : FetchReturn(t)
    \/ \E t \in Tasks : Return(t)
    \/ \E d \in AgingSteps : Tick(d)

\* asyncio's scheduling: a coroutine that can resume does (the event loop runs
\* every ready callback), and the upstream answers every request.
Fairness ==
    \A t \in Tasks :
        /\ WF_vars(Wake(t))
        /\ WF_vars(\E r \in GateListingResponses : ListingAnswer(t, r))
        /\ WF_vars(FetchReturn(t))

SpecFair == Init /\ [][NextLock]_vars /\ Fairness

\* ------------------------------------------------------------------- claims
\* initialize() of handler call t has returned.
InitDone(t) == pc[t] = "ret" /\ op[t] \in {"lifespan", "list"}

\* The call of t began against a stale snapshot (either condition of the gate).
BeganStale(t) == hist[t].empty \/ hist[t].aged

\* A question list every object of which has its three keys.
WellFormed(l) ==
    \A i \in DOMAIN l : /\ l[i].questionId # Missing
                        /\ l[i].questionFrontendId # Missing
                        /\ l[i].titleSlug # Missing

\* A bulk-listing answer that can be turned into records.
Usable(r) == r.kind = "list" /\ WellFormed(r.body)

\* The snapshot that holds exactly the records of a well-formed list l.
CompleteSnapshot(l) ==
    LET at(i) == l[i] IN
    Snapshot(
        [id \in { at(i).questionId : i \in DOMAIN l } |->
            at(CHOOSE i \in DOMAIN l : at(i).questionId = id)],
        [sl \in { at(i).titleSlug : i \in DOMAIN l } |->
            at(CHOOSE i \in DOMAIN l : at(i).titleSlug = sl).questionId],
        [f \in { at(i).questionFrontendId : i \in DOMAIN l } |->
            at(CHOOSE i \in DOMAIN l : at(i).questionFrontendId = f).titleSlug])

\* t resumes from its bulk-listing request in this step.
Resumes(t) == pc[t] = "fetch" /\ net[t] # NoMsg /\ net'[t] = NoMsg

\* C1 as stated: every call of initialize() that began against a stale
\* snapshot and returned within one freshness window saw exactly one
\* bulk-listing attempt complete between its start and its return, whoever
\* sent it: concurrent calls share a single refresh.
C1_ExactlyOnce ==
    \A t \in Tasks :
        (InitDone(t) /\ BeganStale(t) /\ ~hist[t].slow) => hist[t].seen = 1

\* C1 amended: the same, provided no bulk-listing attempt completed during the
\* call left the snapshot empty (an empty snapshot keeps the gate open, so the
\* next caller refreshes again).
C1_OnceUnlessEmpty ==
    \A t \in Tasks :
        (InitDone(t) /\ BeganStale(t) /\ ~hist[t].slow /\ ~hist[t].seenEmpty)
            => hist[t].seen = 1

\* Two calls that began stale are back at once, one refresh between them.
C1_Witness ==
    \E t, u \in Tasks :
        /\ t # u
        /\ \A v \in {t, u} : /\ InitDone(v) /\ BeganStale(v) /\ op[v] = "list"
                             /\ ~hist[v].slow /\ ~hist[v].seenEmpty /\ hist[v].seen = 1

\* C2: at most one coroutine is between the bulk-listing request and the end
\* of the rebuild, and it is the one that holds the lock.
C2_OneRefreshInFlight ==
    /\ Cardinality({ t \in Tasks : pc[t] = "fetch" }) <= 1
    /\ \A t \in Tasks : pc[t] = "fetch" => lock = t

\* A refresh is in flight while another caller is queued behind it.
C2_Witness == \E t, u \in Tasks : pc[t] = "fetch" /\ pc[u] = "wait"

\* C3: when the bulk-listing answer of a refresh cannot be used (the transport
\* raised, the status is not 200, or the body cannot be turned into records)
\* and the snapshot was not empty, the record set and both indices are left as
\* they were and initialize() returns normally.
C3_FailOpen ==
    [][\A t \in Tasks :
          (Resumes(t) /\ ~Usable(net[t]) /\ DOMAIN questions # {})
              => (Current' = Current /\ pc'[t] = "ret")]_vars

\* C4: last_updated changes only in a step that completes a refresh whose
\* bulk-listing answer was usable.
C4_StampOnlyOnSuccess ==
    [][last_updated' # last_updated
          => \E t \in Tasks : Resumes(t) /\ Usable(net[t])]_vars

\* C5: every stored question is indexed under its own slug and display id.
C5_IndexConsistency ==
    \A id \in DOMAIN questions :
        LET r == questions[id] IN
            /\ r.questionId = id
            /\ r.titleSlug \in DOMAIN slug_to_id
            /\ slug_to_id[r.titleSlug] = id
            /\ r.questionFrontendId \in DOMAIN frontend_id_to_slug
            /\ frontend_id_to_slug[r.questionFrontendId] = r.titleSlug

\* C6: every step leaves the snapshot as it was or replaces it by the complete
\* listing of a refresh that succeeded.
C6_NoIntermediateSnapshot ==
    [][\/ Current' = Current
       \/ \E t \in Tasks : /\ Resumes(t) /\ Usable(net[t])
                           /\ Current' = CompleteSnapshot(net[t].body)]_vars

\* C7: a call of initialize() that began when the snapshot was older than the
\* freshness window returns only after a bulk-listing attempt completed during
\* the call (its own, or the one it queued behind).
C7_Freshness ==
    \A t \in Tasks : (InitDone(t) /\ hist[t].aged) => hist[t].seen >= 1

\* A call that began on a non-empty but aged snapshot has returned.
C7_Witness ==
    \E t \in Tasks : InitDone(t) /\ hist[t].aged /\ ~hist[t].empty /\ hist[t].seen >= 1

\* t evaluates the gate of line 28 in this step.
Checks(t) ==
    \/ pc[t] = "idle" /\ pc'[t] \in {"fetch", "ret"} /\ op'[t] \in {"lifespan", "list"}
    \/ pc[t] = "wait" /\ pc'[t] # "wait"

\* C8: the step in which a call evaluates the gate sends the bulk-listing
\* request exactly when the snapshot is empty or older than the freshness
\* window; otherwise the call is over in that step with no request sent and
\* the cache as it was.
C8_RefreshGate ==
    [][\A t \in Tasks :
          Checks(t) =>
              /\ (pc'[t] = "fetch")
                    <=> (DOMAIN questions = {} \/ now - last_updated > update_interval)
              /\ pc'[t] # "fetch"
                    => (pc'[t] = "ret" /\ net' = net /\ cacheVars' = cacheVars)]_vars

\* A call on a non-empty snapshot aged exactly one freshness window returned
\* without a refresh.
C8_Witness ==
    \E t \in Tasks : /\ InitDone(t) /\ hist[t].seen = 0
                     /\ ~hist[t].empty /\ ~hist[t].aged
                     /\ DOMAIN questions # {}
                     /\ now - last_updated = update_interval

\* C9: a refresh whose bulk-listing attempt failed in the transport sends
\* another attempt.
C9_RefreshRetries ==
    [][\A t \in Tasks :
          (Resumes(t) /\ net[t].kind \in {"exc", "non200"}) => pc'[t] = "fetch"]_vars

\* An attempt whose answer had status 200.
Status200(r) == r.kind \in {"doc", "errdoc", "badjson"}

\* An attempt whose answer had status 200 and a body that decodes as JSON.
Completed200(r) == r.kind \in {"doc", "errdoc"}

\* C10 as stated: fetch_with_retry makes at most 3 attempts and none after
\* one that was answered with status 200; None comes back exactly when none
\* of 3 attempts was answered with status 200.
C10_StopsAtStatus200 ==
    \A t \in Tasks :
        LET o == hist[t].outs IN
            /\ Len(o) <= 3
            /\ \A i \in 1..(Len(o) - 1) : ~Status200(o[i])
            /\ (pc[t] = "ret" /\ op[t] = "articles") =>
                   (hist[t].got = NoMsg
                        <=> (Len(o) = 3 /\ \A i \in 1..3 : ~Status200(o[i])))

\* C10 amended: fetch_with_retry makes at most 3 attempts, none after one that
\* was answered with status 200 and a body that decodes as JSON; it returns
\* the document of that attempt (an error payload too), and None exactly when
\* 3 attempts failed, an undecodable status-200 body counting as a failure;
\* while it runs it can always go on.
C10_BoundedRetry ==
    \A t \in Tasks :
        LET o == hist[t].outs IN
            /\ Len(o) <= 3
            /\ \A i \in 1..(Len(o) - 1) : ~Completed200(o[i])
            /\ (pc[t] = "ret" /\ op[t] = "articles") =>
                   /\ Len(o) >= 1
                   /\ IF Completed200(o[Len(o)])
                      THEN hist[t].got = o[Len(o)]
                      ELSE Len(o) = 3 /\ hist[t].got = NoMsg
            /\ pc[t] \in {"post", "sleep"} =>
                   ENABLED (\/ PostReturn(t)
                            \/ SleepReturn(t)
                            \/ \E r \in RetryResponses : PostAnswer(t, r))

\* The third attempt returned an error payload after two that failed.
C10_Witness ==
    \E t \in Tasks :
        /\ pc[t] = "ret" /\ op[t] = "articles"
        /\ Len(hist[t].outs) = 3
        /\ hist[t].outs[1].kind = "exc"
        /\ hist[t].outs[2].kind = "non200"
        /\ hist[t].got = Msg("errdoc", <<>>)

\* All three attempts failed and None came back.
C10_WitnessNone ==
    \E t \in Tasks :
        /\ pc[t] = "ret" /\ op[t] = "articles"
        /\ Len(hist[t].outs) = 3
        /\ hist[t].got = NoMsg

\* C11: fetch_with_retry suspends for retry_delay between every failed attempt
\* and the attempt that follows it, whether the attempt failed by an exception
\* or by a status other than 200: whenever attempt number i is under way, the
\* call has slept (i - 1) * retry_delay.
C11_DelayBetweenAttempts ==
    \A t \in Tasks :
        pc[t] = "post" => hist[t].slept = retry_delay * (attempt[t] - 1)

\* t's get_problem call leaves initialize() in this step and runs lines 109-149.
PassesInitialize(t) ==
    /\ op'[t] = "problem"
    /\ pc[t] \in {"idle", "wait", "fetch"}
    /\ pc'[t] \in {"post", "ret"}

\* fetch_with_retry returns to t's get_problem call in this step.
FetchEnds(t) ==
    /\ op[t] = "problem"
    /\ pc[t] \in {"post", "sleep"}
    /\ pc'[t] = "ret"

\* C12: detail memoization. A get_problem call whose detail query succeeds
\* stores the question under its id and returns it; every get_problem call
\* that resolves to an id whose question is stored returns the stored entry
\* and sends nothing upstream. So of two calls in sequence for one identifier
\* on one snapshot, the first succeeding, only the first queries the upstream.
C12_DetailMemoization ==
    [][\A t \in Tasks :
        /\ (FetchEnds(t) /\ pc[t] = "post" /\ net[t].kind = "doc")
            => /\ result'[t] = "ok"
               /\ frame[t].qid \in DOMAIN question_details'
               /\ question_details'[frame[t].qid] = Detail(frame[t].slug)
               /\ frame'[t].data = Detail(frame[t].slug)
        /\ (PassesInitialize(t) /\ frame'[t].qid \in DOMAIN question_details)
            => /\ pc'[t] = "ret"
               /\ result'[t] = "ok"
               /\ frame'[t].data = question_details[frame'[t].qid]
               /\ net' = net
               /\ question_details' = question_details]_vars

\* A call has returned a stored entry without any attempt upstream.
C12_Witness ==
    \E t \in Tasks :
        /\ pc[t] = "ret"
        /\ op[t] = "problem"
        /\ result[t] = "ok"
        /\ hist[t].outs = <<>>
        /\ frame[t].qid \in DOMAIN question_details
        /\ frame[t].data = question_details[frame[t].qid]

\* C13: a failed detail fetch is not cached. When fetch_with_retry ends with
\* no question (all attempts failed, or the upstream's document holds no
\* question), get_problem ends in an error and question_details is unchanged;
\* and a call that resolves to an id with no stored question queries the
\* upstream (so a later call for the same identifier asks again).
C13_FailureNotCached ==
    [][\A t \in Tasks :
        /\ (FetchEnds(t) /\ ~(pc[t] = "post" /\ net[t].kind = "doc"))
            => /\ result'[t] \in {"404", "500"}
               /\ question_details' = question_details
        /\ (PassesInitialize(t) /\ frame'[t].qid # ""
                /\ frame'[t].qid \notin DOMAIN question_details)
            => /\ pc'[t] = "post"
               /\ attempt'[t] = 1]_vars

\* A call failed after three attempts that raised, and its id has no entry.
C13_Witness ==
    \E t \in Tasks :
        /\ pc[t] = "ret"
        /\ op[t] = "problem"
        /\ result[t] = "404"
        /\ Len(hist[t].outs) = retries
        /\ hist[t].got = NoMsg
        /\ frame[t].qid \notin DOMAIN question_details

\* A call failed on a document without a question, and its id has no entry.
C13_WitnessNoQuestion ==
    \E t \in Tasks :
        /\ pc[t] = "ret"
        /\ op[t] = "problem"
        /\ result[t] = "404"
        /\ hist[t].got.kind = "nullq"
        /\ frame[t].qid \notin DOMAIN question_details

\* x is the display id or the slug of a question of the snapshot.
Known(qs, x) ==
    \E id \in DOMAIN qs : qs[id].questionFrontendId = x \/ qs[id].titleSlug = x

\* t's get_problem call passes the gate of initialize() in this step without a
\* refresh: the snapshot is populated and fresh.
PassesFresh(t) ==
    /\ PassesInitialize(t)
    /\ pc[t] \in {"idle", "wait"}
    /\ DOMAIN questions # {}
    /\ now - last_updated <= interval

\* C15: on a populated, fresh snapshot a get_problem call for a string that is
\* neither a display id nor a slug of the snapshot ends with 404, sends
\* nothing upstream and leaves the snapshot, the indices, the timestamp and
\* question_details as they were.
C15_UnknownIdentifier ==
    [][\A t \in Tasks :
        (PassesFresh(t) /\ ~Known(questions, frame'[t].arg))
            => /\ pc'[t] = "ret"
               /\ result'[t] = "404"
               /\ net' = net
               /\ cacheVars' = cacheVars]_vars

\* A call for an unknown string got 404 from a populated snapshot with no
\* bulk-listing attempt and no detail attempt on its way.
C15_Witness ==
    \E t \in Tasks :
        /\ pc[t] = "ret"
        /\ op[t] = "problem"
        /\ result[t] = "404"
        /\ ~hist[t].empty
        /\ hist[t].seen = 0
        /\ hist[t].outs = <<>>
        /\ ~Known(questions, frame[t].arg)

\* The ids of the questions of qs whose display id is x, and whose slug is x.
ByDisplayId(qs, x) == { id \in DOMAIN qs : qs[id].questionFrontendId = x }

BySlug(qs, x) == { id \in DOMAIN qs : qs[id].titleSlug = x }

\* C16: resolution order. get_problem resolves its string to the question of
\* the snapshot whose display id equals it when there is one, otherwise to the
\* question whose slug equals it when there is one, otherwise it ends with 404.
C16_ResolutionOrder ==
    [][\A t \in Tasks :
        PassesInitialize(t) =>
            LET x == frame'[t].arg IN
            IF ByDisplayId(questions', x) # {}
            THEN frame'[t].qid \in ByDisplayId(questions', x)
            ELSE IF BySlug(questions', x) # {}
            THEN frame'[t].qid \in BySlug(questions', x)
            ELSE pc'[t] = "ret" /\ result'[t] = "404"]_vars

\* C14: once question_details holds a question under an id, the entry is
\* never removed and never replaced by a different one, whatever get_problem
\* calls and refreshes follow or interleave.
C14_DetailsStable ==
    [][\A k \in DOMAIN question_details :
        /\ k \in DOMAIN question_details'
        /\ question_details'[k] = question_details[k]]_vars

\* C20: whenever question_details holds an entry under an id of the current
\* snapshot, the entry is the question of the slug the snapshot gives that id.
C20_DetailsMatchCatalog ==
    \A k \in DOMAIN question_details \cap DOMAIN questions :
        question_details[k] = Detail(questions[k].titleSlug)

\* Handler call t (not the lifespan's) enters initialize() in this step while
\* no other call is inside it: a call in sequence with the others.
EntersAlone(t) ==
    /\ pc[t] = "idle"
    /\ op'[t] = "list"
    /\ \A u \in Tasks : ~InInitialize(u)

\* C17 as stated: with update_interval = 0 every snapshot counts as stale, so
\* each get_all_problems call in sequence sends a bulk-listing request.
C17_AlwaysStale ==
    [][\A t \in Tasks : EntersAlone(t) => (pc'[t] = "fetch" /\ lock' = t)]_vars

\* C17 amended: with update_interval = 0 a get_all_problems call in sequence
\* sends a bulk-listing request exactly when the snapshot is empty or the
\* clock reads later than last_updated.
C17_StaleOnceClockMoved ==
    [][\A t \in Tasks :
        EntersAlone(t) =>
            ((pc'[t] = "fetch" /\ lock' = t)
                <=> (DOMAIN questions = {} \/ now > last_updated))]_vars

\* A call refreshes a populated snapshot that a refresh under this process
\* stamped one second before.
C17_Witness ==
    \E t \in Tasks :
        /\ pc[t] = "fetch"
        /\ op[t] = "list"
        /\ interval = 0
        /\ ~hist[t].empty
        /\ hist[t].seen = 0
        /\ now - last_updated = 1

\* C18: no deadlock on the refresh lock. Under asyncio's scheduling and an
\* upstream that answers every request, the lock is only ever held by a
\* coroutine at the bulk-listing request inside initialize(), and every call
\* inside initialize() (waiting for the lock, or refreshing) leaves it: so
\* the lock is free once the holder returned, and a waiter is released.
C18_NoDeadlock ==
    /\ [](\A t \in Tasks : lock = t => pc[t] = "fetch")
    /\ \A t \in Tasks : InInitialize(t) ~> ~InInitialize(t)

\* A call waits for the lock while the holder's bulk-listing request has been
\* answered with an exception.
C18_Witness ==
    \E t, u \in Tasks :
        /\ pc[t] = "fetch"
        /\ net[t].kind = "exc"
        /\ pc[u] = "wait"
        /\ Len(waiters) >= 1

\* C19: referential integrity of the indices. Every slug frontend_id_to_slug
\* maps to is a key of slug_to_id and every id slug_to_id maps to is a key of
\* questions, also after a rebuild that raised part-way; hence line 117 of
\* get_problem finds the slug that lines 109-112 resolved to.
C19_ReferentialIntegrity ==
    /\ \A x \in DOMAIN frontend_id_to_slug :
            frontend_id_to_slug[x] \in DOMAIN slug_to_id
    /\ \A s \in DOMAIN slug_to_id : slug_to_id[s] \in DOMAIN questions
    /\ \A x \in Idents :
            Resolve(Current, x) # NotFound => IdOf(Current, Resolve(Current, x)) # NoKey

\* A rebuild that raised part-way has left a question without its index
\* entries beside a fully indexed one.
C19_Witness ==
    /\ DOMAIN frontend_id_to_slug # {}
    /\ \E id \in DOMAIN questions :
            /\ id \notin { slug_to_id[s] : s \in DOMAIN slug_to_id }
            /\ last_updated > 0

====
